---- MODULE Spec2Model ----
(***************************************************************************)
(* Sustainability monitoring and adaptive-response engine                  *)
(* (src/app/analysis: vrps.py, kalman_filter.py, lstm_predictor.py,        *)
(* decision_matrix.py, stability_monitor.py; src/app/dashboard.py).        *)
(*                                                                         *)
(* Floats are modelled in fixed point:                                     *)
(*   normalized components, estimates, forecasts : tenths     (Scale)      *)
(*   sustainability index, similarity, averages  : thousandths             *)
(*   Kalman covariance and noise                 : thousandths             *)
(*   raw inputs: T in ms, rho and P_block in thousandths, U in hundredths  *)
(* The Kalman filter is modelled for diagonal F and diagonal P (the        *)
(* initial F = I, P = p0*I, Q = q*I, R = r*I are diagonal and the update   *)
(* keeps them so); a diagonal matrix is the 5-tuple of its diagonal.       *)
(* Wall-clock time (datetime.now) is the variable now, in minutes.         *)
(***************************************************************************)
EXTENDS Integers, Sequences, FiniteSets, TLC

VARIABLES
    vrps_osr_thresholds,  \* MonitorConfig.vrps_config.osr_thresholds (tenths)
    enable_lstm,          \* MonitorConfig.enable_lstm
    enable_kalman,        \* MonitorConfig.enable_kalman
    TF_AVAILABLE,         \* lstm_predictor.TF_AVAILABLE
    lstm,                 \* StabilityMonitor.lstm: None or Some([is_trained, model_version])
    last_lstm_prediction, \* HybridPredictor._last_lstm_prediction
    vrps_history,         \* VRPSCalculator._history (as_array of each vector)
    snapshots,            \* StabilityMonitor._snapshots
    F,                    \* KalmanFilter.F (diagonal, tenths)
    x_est,                \* KalmanFilter._x_est (tenths)
    P,                    \* KalmanFilter._P (diagonal, thousandths)
    kalman_history,       \* KalmanFilter._history
    sim_history,          \* CosineSimilarity._history: <<time, sim>> pairs
    low_sim_start,        \* CosineSimilarity._low_sim_start
    decision_history,     \* DecisionMatrix._decision_history
    now,                  \* datetime.now(), minutes
    result,               \* the last call: [op, raised, snapshot returned, predict_failed]
    sim_result,           \* SimilarityResult returned by the last evaluate
    arrived,              \* history variable: snapshots returned since construction/reset
    fires,                \* history variable: needs_retraining=TRUE results in the current low episode
    calls,                \* history variable: number of calls made on the monitor or detector
    pc,                   \* writer thread position inside process_metrics
    observed              \* what a reader thread last saw: number of snapshots

vars == <<vrps_osr_thresholds, enable_lstm, enable_kalman, TF_AVAILABLE, lstm, last_lstm_prediction,
          vrps_history, snapshots, F, x_est, P, kalman_history, sim_history,
          low_sim_start, decision_history, now, result, sim_result, arrived,
          fires, calls, pc, observed>>

\* Optional values: None is the empty sequence, a present value x is <<x>>
None == <<>>
Some(x) == <<x>>

\* ------------------------------------------------------------------ bounds
MaxCalls == 3            \* process_metrics / evaluate calls in one run
MaxTime == 6             \* the clock stops advancing here
history_size == 2        \* MonitorConfig.history_size as configured in the model
sequence_length == 2     \* LSTMConfig.sequence_length as configured in the model
ma_window_size == 2      \* DecisionConfig.ma_window_size as configured in the model
sim_history_maxlen == 5  \* capacity of CosineSimilarity._history in the model

\* ------------------------------------------------------- program constants
Scale == 10                     \* 1.0 of a normalized component
T_base == 10
T_crit == 500
rho_thresh == 850
P_thresh == 50
U_crit == 95
w_c == 25
w_l == 20
w_q == 35
w_r == 10
w_a == 10
osr_thresholds == <<7, 7, 8, 6, 9>>
components == <<"C", "L", "Q", "R", "A">>
n_states == 5
process_noise == 10
measurement_noise == 50
initial_covariance == 1000
initial_estimate == 8
sim_high_threshold == 900
sim_medium_threshold == 600
sim_alert_threshold == 700
sim_retrain_threshold == 600
sust_high_threshold == 800
sust_medium_threshold == 500
retrain_duration_minutes == 5
multi_step == 5

\* ------------------------------------------------------------- arithmetic
Idx == 1..n_states

Min(a, b) == IF a <= b THEN a ELSE b
Max(a, b) == IF a >= b THEN a ELSE b

\* n / d rounded to the nearest integer (d > 0): the fixed-point division
Round(n, d) == (2 * n + d) \div (2 * d)

\* np.clip(v, lo, hi) on a scalar
Clip(v, lo, hi) == Max(lo, Min(hi, v))

RECURSIVE SqrtIter(_, _, _)
SqrtIter(n, lo, hi) ==
    IF lo >= hi THEN lo
    ELSE IF ((lo + hi + 1) \div 2) * ((lo + hi + 1) \div 2) <= n
         THEN SqrtIter(n, (lo + hi + 1) \div 2, hi)
         ELSE SqrtIter(n, lo, ((lo + hi + 1) \div 2) - 1)

\* floor of the square root, 0 <= n <= 10^6
ISqrt(n) == SqrtIter(n, 0, Min(n, 1000))

RECURSIVE SumSeq(_)
SumSeq(s) == IF s = <<>> THEN 0 ELSE Head(s) + SumSeq(Tail(s))

Dot(v, w) == SumSeq([i \in Idx |-> v[i] * w[i]])

\* np.linalg.norm of a vector in tenths, in hundredths
Norm(v) == ISqrt(100 * Dot(v, v))

\* s[-n:] for n >= 1
LastN(s, n) == IF Len(s) <= n THEN s ELSE SubSeq(s, Len(s) - n + 1, Len(s))

\* Python's s[-n:] for any integer n >= 0: s[-0:] is s[0:], the whole list
PySuffix(s, n) == IF n = 0 THEN s ELSE LastN(s, n)

\* ------------------------------------------------------------ vrps.py
\* Raw metric samples fed to process_metrics: nominal, saturated, and a
\* degraded sample with inconsistent counts.
Samples == {
    [T |-> 5,    rho |-> 0,    P_block |-> 0,    U_cpu |-> 0,   U_ram |-> 0,   N_anom |-> 0,   N_bg |-> 100],
    [T |-> 1000, rho |-> 2000, P_block |-> 1000, U_cpu |-> 100, U_ram |-> 100, N_anom |-> 100, N_bg |-> 0],
    [T |-> 255,  rho |-> 0,    P_block |-> 20,   U_cpu |-> 38,  U_ram |-> 19,  N_anom |-> 15,  N_bg |-> -5]
}

calculate_C_norm(T) ==
    IF T <= T_base THEN Scale
    ELSE Max(0, Min(Scale, Scale - Round(Scale * (T - T_base), T_crit - T_base)))

calculate_L_norm(rho) ==
    IF rho <= 0 THEN Scale
    ELSE Max(0, Min(Scale, Scale - Round(Scale * rho * rho, rho_thresh * rho_thresh)))

calculate_Q_norm(P_block) ==
    IF P_block <= 0 THEN Scale
    ELSE Max(0, Min(Scale, Scale - Round(Scale * P_block, P_thresh)))

R_norm_of(U) ==
    IF U <= 0 THEN Scale
    ELSE Max(0, Min(Scale, Scale - Round(Scale * U, U_crit)))

calculate_R_norm(U_cpu, U_ram) == R_norm_of(Max(U_cpu, U_ram))

\* no clamp here: 1 - alpha is returned as computed
calculate_A_norm(N_anom, N_bg) ==
    IF N_anom + N_bg <= 0 THEN Scale
    ELSE Scale - Round(Scale * N_anom, N_anom + N_bg)

\* VRPSVector.as_array of the vector calculate_vector builds
calculate_vector(s) ==
    << calculate_C_norm(s.T), calculate_L_norm(s.rho), calculate_Q_norm(s.P_block),
       calculate_R_norm(s.U_cpu, s.U_ram), calculate_A_norm(s.N_anom, s.N_bg) >>

RECURSIVE ViolatedFrom(_, _, _)
ViolatedFrom(v, th, i) ==
    IF i > Min(Len(v), Len(th)) THEN <<>>
    ELSE (IF v[i] < th[i] THEN <<components[i]>> ELSE <<>>) \o ViolatedFrom(v, th, i + 1)

\* VRPSCalculator._check_osr: (in_osr, violated)
osr_record(violated) == [in_osr |-> (Len(violated) = 0), violated_components |-> violated]

check_osr(v) == osr_record(ViolatedFrom(v, vrps_osr_thresholds, 1))

sustainability_record(sust, osr) ==
    [ sust_index |-> sust,
      status |-> IF sust > 800 THEN "healthy"
                 ELSE IF sust >= 500 THEN "degraded" ELSE "critical",
      in_osr |-> osr.in_osr,
      violated_components |-> osr.violated_components ]

\* VRPSCalculator.calculate_sustainability: the SustainabilityResult (thousandths)
calculate_sustainability(v) ==
    sustainability_record(
        w_c * v[1] + w_l * v[2] + w_q * v[3] + w_r * v[4] + w_a * v[5], check_osr(v))

\* ------------------------------------------------- decision_matrix.py
\* variant: a zero vector taken as identical to anything
cosine_zero_is_one(dot_product, norm_pred, norm_real) ==
    IF norm_pred = 0 \/ norm_real = 0 THEN 1000
    ELSE Clip(Round(dot_product * 100000, norm_pred * norm_real), -1000, 1000)

\* CosineSimilarity.calculate (thousandths); a norm below 1e-10 is a zero norm
cosine(dot_product, norm_pred, norm_real) ==
    IF norm_pred = 0 \/ norm_real = 0 THEN 0
    ELSE Clip(Round(dot_product * 100000, norm_pred * norm_real), -1000, 1000)

calculate_similarity(s_pred, s_norm) == cosine(Dot(s_pred, s_norm), Norm(s_pred), Norm(s_norm))

\* variant: a full buffer refuses the new entry instead of dropping the oldest
deque_append_keep_old(h, e) ==
    IF Len(h) >= sim_history_maxlen THEN h ELSE Append(h, e)

\* deque(maxlen).append
deque_append(h, e) ==
    IF Len(h) >= sim_history_maxlen THEN Append(Tail(h), e) ELSE Append(h, e)

\* CosineSimilarity._calculate_moving_average
mean_of(window) == Round(SumSeq([i \in 1..Len(window) |-> window[i][2]]), Len(window))

calculate_moving_average(h) ==
    IF h = <<>> THEN 1000 ELSE mean_of(LastN(h, ma_window_size))

\* variant: the duration test taken as "at least" instead of "more than"
duration_reached(t, start) == (t - start) >= retrain_duration_minutes

\* elapsed > retrain_duration, the test of _check_retrain_trigger
duration_exceeded(t, start) == (t - start) > retrain_duration_minutes

\* variant: a trigger that fires once and restarts its timer
retrain_trigger_once(ma, low, t) ==
    IF ma < sim_retrain_threshold
    THEN IF low = None THEN [ret |-> FALSE, low |-> Some(t)]
         ELSE IF duration_exceeded(t, low[1]) THEN [ret |-> TRUE, low |-> Some(t)]
         ELSE [ret |-> FALSE, low |-> low]
    ELSE [ret |-> FALSE, low |-> None]

\* CosineSimilarity._check_retrain_trigger on the history h (the current
\* similarity already appended): the value returned and the new timer
retrain_trigger(ma, low, t) ==
    IF ma < sim_retrain_threshold
    THEN IF low = None THEN [ret |-> FALSE, low |-> Some(t)]
         ELSE IF duration_exceeded(t, low[1]) THEN [ret |-> TRUE, low |-> low]
         ELSE [ret |-> FALSE, low |-> low]
    ELSE [ret |-> FALSE, low |-> None]

check_retrain_trigger(h, low, t) == retrain_trigger(calculate_moving_average(h), low, t)

similarity_level(sim) ==
    IF sim > sim_high_threshold THEN "high"
    ELSE IF sim >= sim_medium_threshold THEN "medium" ELSE "low"

\* the SimilarityResult evaluate builds from the similarity, the updated
\* history and the trigger's answer
similarity_result(sim, h2, trig, t) ==
    [ history |-> h2,
      low |-> trig.low,
      res |-> [ timestamp |-> t, similarity |-> sim, level |-> similarity_level(sim),
                moving_average |-> calculate_moving_average(h2),
                needs_retraining |-> trig.ret,
                alert |-> (sim < sim_alert_threshold) ] ]

evaluate_appended(sim, h2, low, t) ==
    similarity_result(sim, h2, check_retrain_trigger(h2, low, t), t)

evaluate_sim(h, low, sim, t) == evaluate_appended(sim, deque_append(h, <<t, sim>>), low, t)

\* CosineSimilarity.evaluate at time t on detector state (h, low):
\* the new history, the new timer and the SimilarityResult
evaluate(h, low, s_pred, s_norm, t) ==
    evaluate_sim(h, low, calculate_similarity(s_pred, s_norm), t)

\* SustainabilityIndex.calculate (DecisionConfig.weights), clipped to [0, 1]
sustainability_calculate(v) ==
    Clip(w_c * v[1] + w_l * v[2] + w_q * v[3] + w_r * v[4] + w_a * v[5], 0, 1000)

\* variant: a value equal to the high threshold classified high
get_level_inclusive(sust) ==
    IF sust >= sust_high_threshold THEN "high"
    ELSE IF sust >= sust_medium_threshold THEN "medium" ELSE "low"

\* SustainabilityIndex.get_level
get_level(sust) ==
    IF sust > sust_high_threshold THEN "high"
    ELSE IF sust >= sust_medium_threshold THEN "medium" ELSE "low"

\* variant: the table read with its two keys exchanged
DECISION_MATRIX_transposed ==
    [ high   |-> [high |-> 1, medium |-> 4, low |-> 7],
      medium |-> [high |-> 2, medium |-> 5, low |-> 8],
      low    |-> [high |-> 3, medium |-> 6, low |-> 9] ]

\* DecisionMatrix.DECISION_MATRIX, modes by their number
DECISION_MATRIX ==
    [ high   |-> [high |-> 1, medium |-> 2, low |-> 3],
      medium |-> [high |-> 4, medium |-> 5, low |-> 6],
      low    |-> [high |-> 7, medium |-> 8, low |-> 9] ]

RESPONSE_ACTIONS ==
    << "pass", "log_enhanced", "alert_model_drift", "target_mitigation",
       "general_protection", "preventive_alert", "aggressive_mitigation",
       "comprehensive_defense", "critical_lockdown" >>

\* DecisionMatrix._check_violations
check_violations(v, th) == ViolatedFrom(v, th, 1)

\* variant: the reason composed without the clause of the violated components
generate_reason_levels_only(sust_level, sim_level, violated) ==
    IF sust_level = "high" /\ sim_level = "high" THEN <<"nominal">>
    ELSE    (IF sust_level = "low" THEN <<"sust_low">>
             ELSE IF sust_level = "medium" THEN <<"sust_medium">> ELSE <<>>)
         \o (IF sim_level = "low" THEN <<"sim_low">>
             ELSE IF sim_level = "medium" THEN <<"sim_medium">> ELSE <<>>)

\* DecisionMatrix._generate_reason: the clauses, or the nominal message
join_reasons(reasons) == IF reasons # <<>> THEN reasons ELSE <<"nominal">>

generate_reason(sust_level, sim_level, violated) ==
    join_reasons(
            (IF sust_level = "low" THEN <<"sust_low">>
             ELSE IF sust_level = "medium" THEN <<"sust_medium">> ELSE <<>>)
         \o (IF sim_level = "low" THEN <<"sim_low">>
             ELSE IF sim_level = "medium" THEN <<"sim_medium">> ELSE <<>>)
         \o (IF violated # <<>> THEN <<"osr_violated">> ELSE <<>>))

decision_record(sim_res, sust_pred, sust_level, violated, t) ==
    [ timestamp |-> t, mode |-> DECISION_MATRIX[sust_level][sim_res.level],
      action |-> RESPONSE_ACTIONS[DECISION_MATRIX[sust_level][sim_res.level]],
      sust_level |-> sust_level, sim_level |-> sim_res.level,
      sust_value |-> sust_pred, sim_value |-> sim_res.similarity,
      reason |-> generate_reason(sust_level, sim_res.level, violated),
      violated_components |-> violated ]

decide_level(sim_res, sust_pred, violated, t) ==
    decision_record(sim_res, sust_pred, get_level(sust_pred), violated, t)

\* variant: the sustainability level taken from the observed vector
decide_result_observed(sim_res, s_pred, s_norm, th, t) ==
    decide_level(sim_res, sustainability_calculate(s_norm), check_violations(s_norm, th), t)

\* DecisionMatrix.decide given the SimilarityResult of its own evaluate call
decide_result(sim_res, s_pred, s_norm, th, t) ==
    decide_level(sim_res, sustainability_calculate(s_pred), check_violations(s_norm, th), t)

\* variant: the histogram counted over the newest history_size decisions only
get_mode_statistics_window(log) ==
    [m \in 1..9 |->
        Cardinality({i \in 1..Len(log) : i > Len(log) - history_size /\ log[i].mode = m})]

\* DecisionMatrix.get_mode_statistics: a counter per mode over the decision log
get_mode_statistics(log) ==
    [m \in 1..9 |-> Cardinality({i \in 1..Len(log) : log[i].mode = m})]

\* variant: a component equal to its threshold counted as violated
get_violations_inclusive(v) ==
    ViolatedFrom(v, [i \in Idx |-> osr_thresholds[i] + 1], 1)

\* StabilityRegion.is_in_osr / get_violations (names only)
is_in_osr(v) == \A i \in 1..Min(Len(v), Len(osr_thresholds)) : v[i] >= osr_thresholds[i]
get_violations(v) == ViolatedFrom(v, osr_thresholds, 1)

\* --------------------------------------------------- kalman_filter.py
Vec(c) == [i \in Idx |-> c]

\* KalmanFilter.predict: x_pred = F x, P_pred = F P F^T + Q
kalman_predict(Fd, x, Pd) ==
    [ x_pred |-> [i \in Idx |-> Round(Fd[i] * x[i], Scale)],
      P_pred |-> [i \in Idx |-> Round(Fd[i] * Fd[i] * Pd[i], Scale * Scale) + process_noise] ]

\* np.clip(x, 0, 1) of KalmanFilter.update and predict_multi_step
clip_unit(x) == [i \in Idx |-> Clip(x[i], 0, Scale)]

kalman_state(x_clp, P_new, y, t) ==
    [ x_est |-> x_clp, P |-> P_new,
      state |-> [x_est |-> x_clp, P |-> P_new, timestamp |-> t, innovation |-> Norm(y)] ]

\* the gain step of update for the prior pr: K = P_pred S^-1, x = x_pred + K y,
\* P = (I - K) P_pred, then the clip
kalman_correct(pr, z, t) ==
    kalman_state(
        clip_unit([i \in Idx |-> pr.x_pred[i]
                       + Round(pr.P_pred[i] * (z[i] - pr.x_pred[i]), pr.P_pred[i] + measurement_noise)]),
        [i \in Idx |-> Round(measurement_noise * pr.P_pred[i], pr.P_pred[i] + measurement_noise)],
        [i \in Idx |-> z[i] - pr.x_pred[i]],
        t)

\* KalmanFilter.update(z) with H = I: the new estimate, covariance and the
\* KalmanState appended to the history
kalman_update(Fd, x, Pd, z, t) == kalman_correct(kalman_predict(Fd, x, Pd), z, t)

RECURSIVE MultiStepFrom(_, _, _, _)
MultiStepFrom(Fd, x, F_power, steps) ==
    IF steps <= 0 THEN <<>>
    ELSE <<clip_unit([i \in Idx |-> Round(F_power[i] * x[i], Scale)])>>
         \o MultiStepFrom(Fd, x, [i \in Idx |-> Round(F_power[i] * Fd[i], Scale)], steps - 1)

RECURSIVE MultiStepUnclipped(_, _, _, _)
MultiStepUnclipped(Fd, x, F_power, steps) ==
    IF steps <= 0 THEN <<>>
    ELSE <<[i \in Idx |-> Round(F_power[i] * x[i], Scale)]>>
         \o MultiStepUnclipped(Fd, x, [i \in Idx |-> Round(F_power[i] * Fd[i], Scale)], steps - 1)

\* variant: the forecasts returned as computed, without the clip
predict_multi_step_unclipped(Fd, x, steps) == MultiStepUnclipped(Fd, x, Fd, steps)

\* KalmanFilter.predict_multi_step(steps): F_power is F, F^2, ... at each step
predict_multi_step(Fd, x, steps) == MultiStepFrom(Fd, x, Fd, steps)

\* --------------------------------------------------- lstm_predictor.py
\* np.exp(np.linspace(-1, 0, n)) in hundredths
ema_weights(n) ==
    CASE n = 1 -> <<37>>
      [] n = 2 -> <<37, 100>>
      [] n = 3 -> <<37, 61, 100>>
      [] n = 4 -> <<37, 51, 72, 100>>
      [] OTHER -> [k \in 1..n |-> 37 + Round(63 * (k - 1) * (k - 1), (n - 1) * (n - 1))]

\* LSTMPredictor._fallback_predict: exponentially weighted average of the sequence
weighted_average(sequence, w) ==
    [i \in Idx |-> Round(SumSeq([k \in 1..Len(sequence) |-> w[k] * sequence[k][i]]), SumSeq(w))]

fallback_predict(sequence) == weighted_average(sequence, ema_weights(Len(sequence)))

\* What model.predict of a trained network can do: return a vector in [0,1]^5
\* or raise (backend error, input shape not the one the loaded model takes)
NNOutcomes ==
    { [raised |-> TRUE,  v |-> <<0, 0, 0, 0, 0>>],
      [raised |-> FALSE, v |-> <<9, 9, 9, 9, 9>>],
      [raised |-> FALSE, v |-> <<2, 3, 4, 5, 3>>] }

\* LSTMPredictor.predict(sequence) of forecaster m: [raised, v]
lstm_predict(m, sequence, o) ==
    IF ~TF_AVAILABLE \/ ~m.is_trained
    THEN [raised |-> FALSE, v |-> fallback_predict(sequence)]
    ELSE o

\* HybridPredictor.update_and_predict after kalman.update: lstm_pred, None
\* when there is no forecaster or its predict raised (caught)
caught(r) == IF r.raised THEN None ELSE Some(r.v)

hybrid_lstm_pred(m, sequence, o) ==
    IF m = None THEN None ELSE caught(lstm_predict(m[1], sequence, o))

\* Python's "a or b" with a an ndarray or None: the truth value of a
\* 5-element ndarray raises ValueError
py_or(a, b) ==
    IF a = None THEN [raised |-> FALSE, v |-> b] ELSE [raised |-> TRUE, v |-> b]

\* ------------------------------------------------ stability_monitor.py
\* minutes that can pass between two calls on the monitor
TickSteps == {3}

\* the osr_thresholds a MonitorConfig may carry in its vrps_config: the
\* default of VRPSConfig, and a customised tuple (0.5 for every component)
OsrThresholdConfigs == { osr_thresholds, Vec(5) }

\* StabilityMonitor.__init__ / the constructors it calls
InitMonitor ==
    /\ vrps_osr_thresholds \in OsrThresholdConfigs
    /\ enable_lstm \in BOOLEAN
    /\ enable_kalman \in BOOLEAN
    /\ TF_AVAILABLE \in (IF enable_lstm THEN BOOLEAN ELSE {FALSE})  \* read by LSTMPredictor only
    /\ lstm \in IF enable_lstm
                THEN {Some([is_trained |-> FALSE, model_version |-> "v1.0"])}
                     \cup (IF TF_AVAILABLE   \* lstm_model_path given and load_model succeeded
                           THEN {Some([is_trained |-> TRUE, model_version |-> "loaded"])}
                           ELSE {})
                ELSE {None}
    /\ last_lstm_prediction = None
    /\ vrps_history = <<>>
    /\ snapshots = <<>>
    /\ F = Vec(Scale)
    /\ x_est = Vec(initial_estimate)
    /\ P = Vec(initial_covariance)
    /\ kalman_history = <<>>
    /\ sim_history = <<>>
    /\ low_sim_start = None
    /\ decision_history = <<>>
    /\ now = 0
    /\ result = [op |-> "init", raised |-> "none", snapshot |-> None, predict_failed |-> FALSE]
    /\ sim_result = None
    /\ arrived = <<>>
    /\ fires = 0
    /\ calls = 0
    /\ observed = 0

\* the monitor as create_monitor builds it: vrps_config = VRPSConfig()
Init ==
    /\ InitMonitor
    /\ vrps_osr_thresholds = osr_thresholds
    /\ pc = "idle"

\* the monitor built from a MonitorConfig with any of the vrps_config above
InitConfig ==
    /\ InitMonitor
    /\ ~enable_lstm
    /\ enable_kalman
    /\ pc = "idle"

\* history variable: TRUE results counted per contiguous low episode
fires_after(f, res) ==
    IF res.moving_average >= sim_retrain_threshold THEN 0
    ELSE f + (IF res.needs_retraining THEN 1 ELSE 0)

\* variant: the steady state entered one sample early
is_steady_early(history) == Len(history) >= sequence_length - 1

\* variant: steady only for the sample that makes the count reach seq_len
is_steady_exact(history) == Len(history) = sequence_length

\* len(history) >= seq_len, the steady-state test of process_metrics
is_steady(history) == Len(history) >= sequence_length

\* variant: the oldest history_size snapshots kept instead of the newest
trim_snapshots_oldest(snaps) ==
    IF Len(snaps) > history_size THEN SubSeq(snaps, 1, history_size) ELSE snaps

\* self._snapshots[-history_size:] once the length exceeds history_size
trim_snapshots(snaps) ==
    IF Len(snaps) > history_size THEN PySuffix(snaps, history_size) ELSE snaps

\* the forecast of the steady state with the linear estimator (self.hybrid):
\* update_and_predict, then "lstm_prediction or kalman_estimate"
hybrid_forecast(kal, lstm_pred) ==
    [ raised |-> IF py_or(lstm_pred, kal.x_est).raised THEN "ValueError" ELSE "none",
      prediction |-> kal.x_est,
      multi |-> predict_multi_step(F, kal.x_est, multi_step),
      use_hybrid |-> TRUE, kal |-> kal, lstm_pred |-> lstm_pred ]

\* the forecast of the steady state with a trained forecaster and no linear
\* estimator: self.lstm.predict(sequence), not guarded
lstm_forecast(r) ==
    [ raised |-> IF r.raised THEN "PredictError" ELSE "none",
      prediction |-> r.v, multi |-> <<>>,
      use_hybrid |-> FALSE, kal |-> None, lstm_pred |-> None ]

\* variant: the estimator's initial estimate forecast while no forecast exists
identity_forecast_initial(z) ==
    [ raised |-> "none", prediction |-> Vec(initial_estimate), multi |-> <<>>,
      use_hybrid |-> FALSE, kal |-> None, lstm_pred |-> None ]

\* prediction is None after the branch: the current vector is the forecast
identity_forecast(z) ==
    [ raised |-> "none", prediction |-> z, multi |-> <<>>,
      use_hybrid |-> FALSE, kal |-> None, lstm_pred |-> None ]

\* lines 78-92 of process_metrics for the vector z just appended to history,
\* on a monitor whose forecaster (self.lstm) is m
forecast(m, z, history, o) ==
    IF is_steady(history) /\ enable_kalman
    THEN hybrid_forecast(kalman_update(F, x_est, P, z, now),
                         hybrid_lstm_pred(m, LastN(history, sequence_length), o))
    ELSE IF is_steady(history) /\ m # None /\ m[1].is_trained
    THEN lstm_forecast(lstm_predict(m[1], LastN(history, sequence_length), o))
    ELSE identity_forecast(z)

\* the MonitoringSnapshot; seq is a history field, the arrival number
make_snapshot(m, z, fc, ev1, decision) ==
    [ seq |-> calls + 1, timestamp |-> now, vrps_vector |-> z,
      sustainability |-> calculate_sustainability(z),
      prediction |-> fc.prediction,
      multi_step_predictions |-> fc.multi,
      similarity |-> ev1.res.similarity,
      similarity_ma |-> ev1.res.moving_average,
      decision |-> decision, in_osr |-> is_in_osr(z),
      osr_violations |-> get_violations(z),
      model_version |-> IF m # None THEN m[1].model_version ELSE "none" ]

outcome_record(history, fc, ev1, ev2, decision, snapshot) ==
    [ raised |-> fc.raised, history |-> history, use_hybrid |-> fc.use_hybrid,
      kal |-> fc.kal, lstm_pred |-> fc.lstm_pred, ev1 |-> ev1, ev2 |-> ev2,
      decision |-> decision, snapshot |-> snapshot ]

outcome_decided(m, z, history, fc, ev1, ev2, decision) ==
    outcome_record(history, fc, ev1, ev2, decision, make_snapshot(m, z, fc, ev1, decision))

\* line 94: decide, whose own evaluate call gave ev2
outcome_evaluated(m, z, history, fc, ev1, ev2) ==
    outcome_decided(m, z, history, fc, ev1, ev2,
                    decide_result(ev2.res, fc.prediction, z, osr_thresholds, now))

\* line 93: similarity.evaluate gave ev1; decide evaluates again
outcome_first(m, z, history, fc, ev1) ==
    outcome_evaluated(m, z, history, fc, ev1,
                      evaluate(ev1.history, ev1.low, fc.prediction, z, now))

outcome_forecast(m, z, history, fc) ==
    outcome_first(m, z, history, fc,
                  evaluate(sim_history, low_sim_start, fc.prediction, z, now))

outcome_vector(m, z, history, o) ==
    outcome_forecast(m, z, history, forecast(m, z, history, o))

\* Everything process_metrics computes for sample s on a monitor whose
\* forecaster is m, when the trained network's predict does o: the forecast,
\* both evaluate calls, the decision, the snapshot, and the exception raised
\* on the way, if any
process_outcome_with(m, s, o) ==
    outcome_vector(m, calculate_vector(s), Append(vrps_history, calculate_vector(s)), o)

process_outcome(s, o) == process_outcome_with(lstm, s, o)

\* the trained network's predict is reached by this call
predict_reached(s) ==
    /\ is_steady(Append(vrps_history, calculate_vector(s)))
    /\ lstm # None
    /\ TF_AVAILABLE /\ lstm[1].is_trained

\* the state process_metrics leaves for outcome r; trimmed: the length test
\* and slice after self._snapshots.append(snapshot) are part of the step;
\* failed: the trained network's predict raised during this call
apply_outcome(r, failed, trimmed) ==
    /\ calls' = calls + 1
    /\ vrps_history' = r.history
    /\ IF r.use_hybrid
       THEN /\ x_est' = r.kal.x_est
            /\ P' = r.kal.P
            /\ kalman_history' = Append(kalman_history, r.kal.state)
            /\ last_lstm_prediction' =
                   IF r.lstm_pred # None THEN r.lstm_pred ELSE last_lstm_prediction
       ELSE UNCHANGED <<x_est, P, kalman_history, last_lstm_prediction>>
    /\ IF r.raised = "none"
       THEN /\ sim_history' = r.ev2.history
            /\ low_sim_start' = r.ev2.low
            /\ sim_result' = Some(r.ev2.res)
            /\ fires' = fires_after(fires_after(fires, r.ev1.res), r.ev2.res)
            /\ decision_history' = Append(decision_history, r.decision)
            /\ snapshots' = IF trimmed THEN trim_snapshots(Append(snapshots, r.snapshot))
                            ELSE Append(snapshots, r.snapshot)
            /\ arrived' = Append(arrived, r.snapshot)
            /\ result' = [op |-> "process_metrics", raised |-> "none",
                          snapshot |-> Some(r.snapshot), predict_failed |-> failed]
       ELSE /\ UNCHANGED <<sim_history, low_sim_start, sim_result, fires,
                           decision_history, snapshots, arrived>>
            /\ result' = [op |-> "process_metrics", raised |-> r.raised,
                          snapshot |-> None, predict_failed |-> failed]
    /\ UNCHANGED <<vrps_osr_thresholds, enable_lstm, enable_kalman, TF_AVAILABLE, lstm, F, now>>

process_body(s, o, trimmed) ==
    apply_outcome(process_outcome(s, o), predict_reached(s) /\ o.raised, trimmed)

\* StabilityMonitor.process_metrics, the whole call
ProcessMetrics ==
    /\ pc = "idle"
    /\ calls < MaxCalls
    /\ \E s \in Samples :
         \E o \in (IF predict_reached(s) THEN NNOutcomes ELSE {CHOOSE x \in NNOutcomes : x.raised}) :
            process_body(s, o, TRUE)
    /\ UNCHANGED <<pc, observed>>

\* variant: a reset that keeps the estimator history
kalman_reset_keep_history ==
    /\ x_est' = Vec(initial_estimate)
    /\ P' = Vec(initial_covariance)
    /\ kalman_history' = kalman_history
    /\ F' = F

\* variant: a reset that also puts the transition matrix back to the identity
kalman_reset_all ==
    /\ x_est' = Vec(initial_estimate)
    /\ P' = Vec(initial_covariance)
    /\ kalman_history' = <<>>
    /\ F' = Vec(Scale)

\* KalmanFilter.reset() with no initial_state: the estimate, the covariance
\* and the history are reset, self.F is not assigned
kalman_reset ==
    /\ x_est' = Vec(initial_estimate)
    /\ P' = Vec(initial_covariance)
    /\ kalman_history' = <<>>
    /\ F' = F

\* StabilityMonitor.reset
Reset ==
    /\ pc = "idle"
    /\ calls < MaxCalls
    /\ snapshots' = <<>>
    /\ vrps_history' = <<>>
    /\ IF enable_kalman THEN kalman_reset ELSE UNCHANGED <<x_est, P, kalman_history, F>>
    /\ arrived' = <<>>
    /\ result' = [op |-> "reset", raised |-> "none", snapshot |-> None, predict_failed |-> FALSE]
    /\ calls' = calls + 1
    /\ UNCHANGED <<vrps_osr_thresholds, enable_lstm, enable_kalman, TF_AVAILABLE, lstm, last_lstm_prediction,
                   sim_history, low_sim_start, decision_history, now, sim_result,
                   fires, pc, observed>>

\* wall-clock time (datetime.now()) advances by d minutes between calls
Advance(d) ==
    /\ now + d <= MaxTime
    /\ now' = now + d
    /\ UNCHANGED <<vrps_osr_thresholds, enable_lstm, enable_kalman, TF_AVAILABLE, lstm, last_lstm_prediction,
                   vrps_history, snapshots, F, x_est, P, kalman_history, sim_history,
                   low_sim_start, decision_history, result, sim_result, arrived,
                   fires, calls, pc, observed>>

Tick == \E d \in TickSteps : Advance(d)

Next == ProcessMetrics \/ Reset \/ Tick

Spec == Init /\ [][Next]_vars

\* the same calls on a monitor built with any vrps_config
SpecConfig == InitConfig /\ [][Next]_vars

\* ------------------------------------------------ read accessors
\* StabilityMonitor.get_current_status
get_current_status(snaps) ==
    IF snaps = <<>> THEN [status |-> "no_data"]
    ELSE [status |-> "ok",
          timestamp |-> snaps[Len(snaps)].timestamp,
          vrps |-> snaps[Len(snaps)].vrps_vector,
          sustainability_index |-> snaps[Len(snaps)].sustainability.sustainability_index,
          similarity |-> snaps[Len(snaps)].similarity,
          similarity_ma |-> snaps[Len(snaps)].similarity_ma,
          protection_mode |-> snaps[Len(snaps)].decision.mode,
          in_osr |-> snaps[Len(snaps)].in_osr]

\* StabilityMonitor.get_history(n): the last n snapshots
get_history(snaps, n) == PySuffix(snaps, n)

\* the numbers of the retained snapshots that are outside the OSR
osr_violations_count(snaps) == Cardinality({i \in 1..Len(snaps) : ~snaps[i].in_osr})

\* StabilityMonitor.get_statistics: None stands for the empty dict returned
\* when no snapshot is retained; the histogram is
\* decision_matrix.get_mode_statistics() over the decision log
get_statistics(snaps, log) ==
    IF snaps = <<>> THEN None
    ELSE Some([total_snapshots |-> Len(snaps),
               mode_distribution |-> get_mode_statistics(log),
               osr_violations_count |-> osr_violations_count(snaps)])

\* ------------------------------------------------ the drift detector alone
\* CosineSimilarity used directly (tools/test_vrps.py): pairs (S_pred, S_norm)
\* with similarity 1.0, about 0.77 and 0.0
EvalPairs ==
    { <<Vec(10), Vec(10)>>, <<Vec(10), <<0, 0, 10, 10, 10>>>>, <<Vec(10), Vec(0)>> }

\* evaluate calls made on the detector in one run
MaxEvals == 4

InitDrift ==
    /\ Init
    /\ ~enable_lstm
    /\ enable_kalman

\* the detector's state after evaluate returned ev
apply_evaluate(ev) ==
    /\ sim_history' = ev.history
    /\ low_sim_start' = ev.low
    /\ sim_result' = Some(ev.res)
    /\ fires' = fires_after(fires, ev.res)
    /\ calls' = calls + 1
    /\ result' = [op |-> "evaluate", raised |-> "none", snapshot |-> None,
                  predict_failed |-> FALSE]
    /\ UNCHANGED <<vrps_osr_thresholds, enable_lstm, enable_kalman, TF_AVAILABLE, lstm, last_lstm_prediction,
                   vrps_history, snapshots, F, x_est, P, kalman_history,
                   decision_history, now, arrived, pc, observed>>

\* CosineSimilarity.evaluate(S_pred, S_norm)
Evaluate ==
    /\ calls < MaxEvals
    /\ \E pair \in EvalPairs :
         apply_evaluate(evaluate(sim_history, low_sim_start, pair[1], pair[2], now))

Minute == Advance(1)

NextDrift == Evaluate \/ Minute

SpecDrift == InitDrift /\ [][NextDrift]_vars

\* ------------------------------------------------ the decision matrix alone
\* DecisionMatrix used directly (tools/test_vrps.py): decide(s_pred, s_norm)
\* on pairs that meet every row and column of the table
DecidePairs ==
    { <<Vec(10), Vec(10)>>,
      <<Vec(10), <<10, 10, 10, 10, 8>>>>,
      <<Vec(10), <<10, 0, 0, 10, 10>>>>,
      <<Vec(10), Vec(0)>>,
      <<Vec(6), Vec(10)>>,
      <<Vec(6), <<10, 0, 0, 10, 10>>>>,
      <<Vec(0), Vec(0)>> }

InitDecide ==
    /\ Init
    /\ ~enable_lstm
    /\ enable_kalman

\* the state decide leaves: its evaluate call returned ev, the decision is d
apply_decide(ev, d) ==
    /\ sim_history' = ev.history
    /\ low_sim_start' = ev.low
    /\ sim_result' = Some(ev.res)
    /\ fires' = fires_after(fires, ev.res)
    /\ decision_history' = Append(decision_history, d)
    /\ calls' = calls + 1
    /\ result' = [op |-> "decide", raised |-> "none", snapshot |-> None,
                  predict_failed |-> FALSE]
    /\ UNCHANGED <<vrps_osr_thresholds, enable_lstm, enable_kalman, TF_AVAILABLE, lstm, last_lstm_prediction,
                   vrps_history, snapshots, F, x_est, P, kalman_history,
                   now, arrived, pc, observed>>

decide_call(s_pred, s_norm, ev) ==
    apply_decide(ev, decide_result(ev.res, s_pred, s_norm, osr_thresholds, now))

\* DecisionMatrix.decide(s_pred, s_norm)
Decide ==
    /\ calls < MaxCalls
    /\ \E pair \in DecidePairs :
         decide_call(pair[1], pair[2],
                     evaluate(sim_history, low_sim_start, pair[1], pair[2], now))

NextDecide == Decide \/ Tick

SpecDecide == InitDecide /\ [][NextDecide]_vars

\* ------------------------------------------------ training the estimator
\* rows learn_transition_matrix needs before it fits anything
min_training_rows == 10

\* a first component that grows from 0.1 to 1.0: the fitted F[0][0] is above 1
GrowingSeries == <<1, 1, 2, 2, 3, 4, 5, 6, 8, 10>>

\* Historical data given to train_models.  The model keeps F diagonal, so the
\* datasets of ten rows are those whose fitted matrix is diagonal: every row
\* has its weight on the first component only.  A short dataset, a constant
\* zero dataset, a constant non-zero dataset, an alternating and a growing one.
TrainingSets ==
    { [t \in 1..(min_training_rows - 1) |-> Vec(10)],
      [t \in 1..min_training_rows |-> Vec(0)],
      [t \in 1..min_training_rows |-> <<10, 0, 0, 0, 0>>],
      [t \in 1..min_training_rows |-> <<IF t % 2 = 1 THEN 10 ELSE 5, 0, 0, 0, 0>>],
      [t \in 1..min_training_rows |-> <<GrowingSeries[t], 0, 0, 0, 0>>] }

\* the diagonal entries of X X^T and of Y X^T for component i
normal_entry(data, i) == SumSeq([t \in 1..(Len(data) - 1) |-> data[t][i] * data[t][i]])
cross_entry(data, i) == SumSeq([t \in 1..(Len(data) - 1) |-> data[t + 1][i] * data[t][i]])

\* F = Y X^T (X X^T + 1e-6 I)^-1 for such data: the regularized matrix is
\* always invertible, a zero diagonal entry of X X^T gives 0 * 1e6 = 0
fit_transition(data) ==
    [i \in Idx |-> IF normal_entry(data, i) = 0 THEN 0
                   ELSE Round(Scale * cross_entry(data, i), normal_entry(data, i))]

\* KalmanFilter.learn_transition_matrix: the new F
learn_transition_matrix(Fd, data) ==
    IF Len(data) < min_training_rows THEN Fd ELSE fit_transition(data)

InitTrain ==
    /\ Init
    /\ ~enable_lstm
    /\ enable_kalman

\* StabilityMonitor.train_models(historical_data) on a monitor without a
\* forecaster: kalman.learn_transition_matrix(historical_data)
TrainModels ==
    /\ pc = "idle"
    /\ calls < MaxCalls
    /\ \E data \in TrainingSets :
         /\ F' = learn_transition_matrix(F, data)
         /\ result' = [op |-> "train_models", raised |-> "none", snapshot |-> None,
                       predict_failed |-> FALSE, data |-> data]
    /\ calls' = calls + 1
    /\ UNCHANGED <<vrps_osr_thresholds, enable_lstm, enable_kalman, TF_AVAILABLE, lstm, last_lstm_prediction,
                   vrps_history, snapshots, x_est, P, kalman_history, sim_history,
                   low_sim_start, decision_history, now, sim_result, arrived,
                   fires, pc, observed>>

NextTrain == ProcessMetrics \/ Reset \/ TrainModels \/ Tick

SpecTrain == InitTrain /\ [][NextTrain]_vars

\* ------------------------------------------------ forecasting ahead
\* the largest number of steps asked of predict_multi_step in one run
MaxSteps == 2

\* KalmanFilter.predict_multi_step(steps) called on the monitor's estimator
\* (monitor.kalman): it reads F and the estimate and writes nothing
PredictMultiStep ==
    /\ pc = "idle"
    /\ calls < MaxCalls
    /\ \E steps \in 0..MaxSteps :
         result' = [op |-> "predict_multi_step", raised |-> "none", snapshot |-> None,
                    predict_failed |-> FALSE, steps |-> steps,
                    predictions |-> predict_multi_step(F, x_est, steps)]
    /\ calls' = calls + 1
    /\ UNCHANGED <<vrps_osr_thresholds, enable_lstm, enable_kalman, TF_AVAILABLE, lstm, last_lstm_prediction,
                   vrps_history, snapshots, F, x_est, P, kalman_history, sim_history,
                   low_sim_start, decision_history, now, sim_result, arrived,
                   fires, pc, observed>>

NextAhead == ProcessMetrics \/ TrainModels \/ PredictMultiStep \/ Tick

SpecAhead == InitTrain /\ [][NextAhead]_vars

\* ------------------------------------------------ the classifiers alone
\* VRPSCalculator.calculate_sustainability and DecisionMatrix.decide used
\* directly (tools/test_vrps.py) on vectors at and next to the boundaries:
\* sustainability 0.81, 0.80, 0.79, 0.50, 0.49
LevelVectors ==
    { <<8, 8, 8, 8, 9>>, Vec(8), <<8, 8, 8, 8, 7>>, Vec(5), <<5, 5, 5, 5, 4>> }

\* pairs (S_pred, S_norm): the forecasts above with similarity 1.0, and
\* pairs with similarity 0.917, 0.900, 0.600 and 0.532
LevelPairs ==
    { <<v, v>> : v \in LevelVectors }
    \cup { <<<<10, 0, 0, 0, 0>>, <<10, 3, 3, 1, 0>>>>,
           <<<<10, 0, 0, 0, 0>>, <<9, 3, 3, 1, 0>>>>,
           <<<<10, 0, 0, 0, 0>>, <<6, 8, 0, 0, 0>>>>,
           <<<<10, 0, 0, 0, 0>>, <<5, 8, 0, 0, 0>>>> }

InitLevels ==
    /\ Init
    /\ ~enable_lstm
    /\ enable_kalman

\* VRPSCalculator.calculate_sustainability(vector): no state is written
CalculateSustainability ==
    /\ calls < MaxCalls
    /\ \E v \in LevelVectors :
         result' = [op |-> "calculate_sustainability", raised |-> "none", snapshot |-> None,
                    predict_failed |-> FALSE, sustainability |-> calculate_sustainability(v)]
    /\ calls' = calls + 1
    /\ UNCHANGED <<vrps_osr_thresholds, enable_lstm, enable_kalman, TF_AVAILABLE, lstm, last_lstm_prediction,
                   vrps_history, snapshots, F, x_est, P, kalman_history, sim_history,
                   low_sim_start, decision_history, now, sim_result, arrived,
                   fires, pc, observed>>

\* DecisionMatrix.decide(s_pred, s_norm) on the boundary pairs
DecideLevels ==
    /\ calls < MaxCalls
    /\ \E pair \in LevelPairs :
         decide_call(pair[1], pair[2],
                     evaluate(sim_history, low_sim_start, pair[1], pair[2], now))

NextLevels == CalculateSustainability \/ DecideLevels \/ Tick

SpecLevels == InitLevels /\ [][NextLevels]_vars

\* ------------------------------------------------ threads on one monitor
\* dashboard.py: simulation threads call process_metrics while Flask handler
\* threads call the read accessors; no lock is taken anywhere
InitConc ==
    /\ Init
    /\ ~enable_lstm
    /\ enable_kalman

\* process_metrics up to and including self._snapshots.append(snapshot)
WriterAppend ==
    /\ pc = "idle"
    /\ calls < MaxCalls
    /\ \E s \in Samples :
         process_body(s, CHOOSE x \in NNOutcomes : x.raised, FALSE)
    /\ pc' = IF result'.raised = "none" THEN "appended" ELSE "idle"
    /\ UNCHANGED observed

\* the rest of process_metrics: the length test and the slice assignment
WriterTrim ==
    /\ pc = "appended"
    /\ snapshots' = trim_snapshots(snapshots)
    /\ pc' = "idle"
    /\ UNCHANGED <<vrps_osr_thresholds, enable_lstm, enable_kalman, TF_AVAILABLE, lstm, last_lstm_prediction,
                   vrps_history, F, x_est, P, kalman_history, sim_history,
                   low_sim_start, decision_history, now, result, sim_result, arrived,
                   fires, calls, observed>>

\* a handler thread runs get_history / get_statistics at any moment
Reader ==
    /\ observed' = Len(get_history(snapshots, Len(snapshots)))
    /\ UNCHANGED <<vrps_osr_thresholds, enable_lstm, enable_kalman, TF_AVAILABLE, lstm, last_lstm_prediction,
                   vrps_history, snapshots, F, x_est, P, kalman_history, sim_history,
                   low_sim_start, decision_history, now, result, sim_result, arrived,
                   fires, calls, pc>>

NextConc == WriterAppend \/ WriterTrim \/ Reader \/ Tick

SpecConc == InitConc /\ [][NextConc]_vars

\* ------------------------------------------------ two writer threads
\* dashboard.py: /api/start starts simulate_normal and /api/attack starts
\* simulate_attack; both threads call process_metrics on the same monitor
Threads == {"simulate_normal", "simulate_attack"}

\* process_metrics calls made by the two threads together in one run
MaxRaceCalls == 4

\* the sample each thread sends (the means of simulate_normal, the first
\* sample of simulate_attack)
ThreadSample(t) ==
    IF t = "simulate_normal"
    THEN [T |-> 15, rho |-> 300, P_block |-> 2, U_cpu |-> 40, U_ram |-> 50,
          N_anom |-> 3, N_bg |-> 100]
    ELSE [T |-> 100, rho |-> 600, P_block |-> 20, U_cpu |-> 70, U_ram |-> 65,
          N_anom |-> 30, N_bg |-> 100]

\* pc[t]: where thread t is inside process_metrics, and the list its slice
\* expression produced and has not stored yet
InitRace ==
    /\ InitMonitor
    /\ vrps_osr_thresholds = osr_thresholds
    /\ ~enable_lstm
    /\ enable_kalman
    /\ pc = [t \in Threads |-> [at |-> "idle", kept |-> <<>>]]

\* lines 75-110 by thread t, up to and including self._snapshots.append
RaceAppend(t) ==
    /\ pc[t].at = "idle"
    /\ calls < MaxRaceCalls
    /\ process_body(ThreadSample(t), CHOOSE x \in NNOutcomes : x.raised, FALSE)
    /\ pc' = [pc EXCEPT ![t] = [at |-> "appended", kept |-> <<>>]]
    /\ UNCHANGED observed

\* lines 111-112 by thread t: the length test and the slice expression
\* self._snapshots[-history_size:], a new list not stored yet
RaceSlice(t) ==
    /\ pc[t].at = "appended"
    /\ pc' = [pc EXCEPT ![t] =
                 IF Len(snapshots) > history_size
                 THEN [at |-> "sliced", kept |-> PySuffix(snapshots, history_size)]
                 ELSE [at |-> "idle", kept |-> <<>>]]
    /\ UNCHANGED <<vrps_osr_thresholds, enable_lstm, enable_kalman, TF_AVAILABLE, lstm, last_lstm_prediction,
                   vrps_history, snapshots, F, x_est, P, kalman_history, sim_history,
                   low_sim_start, decision_history, now, result, sim_result, arrived,
                   fires, calls, observed>>

\* line 112 by thread t: the assignment self._snapshots = <the slice>
RaceStore(t) ==
    /\ pc[t].at = "sliced"
    /\ snapshots' = pc[t].kept
    /\ pc' = [pc EXCEPT ![t] = [at |-> "idle", kept |-> <<>>]]
    /\ UNCHANGED <<vrps_osr_thresholds, enable_lstm, enable_kalman, TF_AVAILABLE, lstm, last_lstm_prediction,
                   vrps_history, F, x_est, P, kalman_history, sim_history,
                   low_sim_start, decision_history, now, result, sim_result, arrived,
                   fires, calls, observed>>

NextRace ==
    \/ \E t \in Threads : RaceAppend(t)
    \/ \E t \in Threads : RaceSlice(t)
    \/ \E t \in Threads : RaceStore(t)
    \/ Tick

SpecRace == InitRace /\ [][NextRace]_vars

\* ================================================================ claims
\* ---------------------------------------------------------------- C1
\* C1: the snapshot history never holds more than history_size snapshots, and
\* it is exactly the most recent ones, in arrival order (the oldest leaves
\* first).  `arrived` records every snapshot appended since construction or
\* the last reset.
C1_BoundedFifoHistory ==
    /\ Len(snapshots) <= history_size
    /\ snapshots = LastN(arrived, history_size)

\* a snapshot has been evicted
C1_Evicted ==
    /\ Len(arrived) > history_size
    /\ Len(snapshots) = history_size
    /\ result.op = "process_metrics"

\* ---------------------------------------------------------------- C2
\* C2: a process_metrics call made while fewer than sequence_length vectors
\* have accumulated since construction or the last reset returns a snapshot
\* whose forecast is the current vector itself, and whose decision is the one
\* the decision matrix logged for this sample, with one of the nine modes.
C2_WarmupForecastIsCurrent ==
    (result.op = "process_metrics" /\ Len(vrps_history) < sequence_length)
        => /\ result.raised = "none"
           /\ result.snapshot # None
           /\ result.snapshot[1].prediction = result.snapshot[1].vrps_vector
           /\ result.snapshot[1].vrps_vector = vrps_history[Len(vrps_history)]
           /\ result.snapshot[1].decision = decision_history[Len(decision_history)]
           /\ result.snapshot[1].decision.mode \in 1..9
           /\ snapshots[Len(snapshots)] = result.snapshot[1]

\* a warm-up call after a reset, on a monitor with the linear estimator
C2_WarmupAfterReset ==
    /\ result.op = "process_metrics"
    /\ Len(vrps_history) < sequence_length
    /\ enable_kalman
    /\ decision_history # <<>> /\ Len(decision_history) > Len(arrived)

\* ---------------------------------------------------------------- C3
\* C3: process_metrics never raises, whatever the sample, in warm-up and in
\* the steady state, for every combination of enable_lstm and enable_kalman;
\* it returns the snapshot, and the snapshot is the newest of the history.
\* (A failure of the forecaster's own predict is the subject of C9 and is
\* left aside here.)
C3_ProcessMetricsNeverRaises ==
    (result.op = "process_metrics" /\ result.raised # "PredictError")
        => /\ result.raised = "none"
           /\ result.snapshot # None
           /\ snapshots # <<>>
           /\ snapshots[Len(snapshots)] = result.snapshot[1]

\* ---------------------------------------------------------------- C4
\* C4 as stated: within one contiguous low episode needs_retraining is
\* returned true once, not on the later evaluations of the same episode.
C4_TrueOncePerEpisode == fires <= 1

\* C4: within one contiguous low episode needs_retraining switches to true
\* once: it is true at every evaluation made more than retrain_duration after
\* the episode began, so once true it stays true for the rest of the episode;
\* the evaluation at which the moving average has recovered returns false and
\* clears the timer, so that the next episode starts its own timer.
C4_SwitchesOncePerEpisode ==
    [][ (calls' # calls /\ result'.op = "evaluate") =>
          /\ sim_result'[1].moving_average >= sim_retrain_threshold
                => /\ ~sim_result'[1].needs_retraining
                   /\ low_sim_start' = None
          /\ (/\ sim_result'[1].moving_average < sim_retrain_threshold
              /\ low_sim_start = None)
                => /\ ~sim_result'[1].needs_retraining
                   /\ low_sim_start' = Some(now)
          /\ (/\ sim_result'[1].moving_average < sim_retrain_threshold
              /\ sim_result # None
              /\ sim_result[1].needs_retraining)
                => /\ sim_result'[1].needs_retraining
                   /\ low_sim_start' = low_sim_start
      ]_vars

\* needs_retraining has been returned true twice in one episode
C4_FiredTwice ==
    /\ fires >= 2
    /\ sim_result # None /\ sim_result[1].needs_retraining

\* ---------------------------------------------------------------- C5
\* the moving average evaluate computed at its k-th call, from the history
MovingAverageAt(h, k) == calculate_moving_average(SubSeq(h, 1, k))

LowAt(h, k) == MovingAverageAt(h, k) < sim_retrain_threshold

\* the first evaluation of the low episode the last evaluation belongs to
EpisodeStart(h) ==
    CHOOSE k \in 1..Len(h) :
        /\ \A j \in k..Len(h) : LowAt(h, j)
        /\ k = 1 \/ ~LowAt(h, k - 1)

\* an evaluate call has just returned and its whole history is recorded
EvaluateReturned ==
    sim_result # None /\ result.op = "evaluate" /\ Len(sim_history) = calls

\* the last evaluation lies in a low episode
InLowEpisode == LowAt(sim_history, Len(sim_history))

\* time from the first evaluation of the episode to the last evaluation
EpisodeElapsed ==
    sim_result[1].timestamp - sim_history[EpisodeStart(sim_history)][1]

\* the timer holds the time of the episode's first evaluation, or nothing
\* when the moving average is not below the threshold
TimerIsEpisodeStart ==
    low_sim_start = IF InLowEpisode
                    THEN Some(sim_history[EpisodeStart(sim_history)][1])
                    ELSE None

\* C5 as stated: the start is recorded at the first evaluation with the
\* moving average below the threshold and cleared by any evaluation with it
\* not below; true is returned exactly when the average has been below at
\* every evaluation since the start and the elapsed time is at least
\* retrain_duration.
C5_TrueFromDuration ==
    EvaluateReturned =>
        /\ TimerIsEpisodeStart
        /\ sim_result[1].needs_retraining
              = (InLowEpisode /\ EpisodeElapsed >= retrain_duration_minutes)

\* C5: the same, with true returned exactly when the elapsed time is more
\* than retrain_duration.
C5_TrueAfterDuration ==
    EvaluateReturned =>
        /\ TimerIsEpisodeStart
        /\ sim_result[1].needs_retraining
              = (InLowEpisode /\ EpisodeElapsed > retrain_duration_minutes)

\* the trigger has fired: an evaluation more than retrain_duration after the start
C5_FiredAfterDuration ==
    /\ result.op = "evaluate"
    /\ sim_result # None /\ sim_result[1].needs_retraining
    /\ sim_result[1].timestamp - low_sim_start[1] > retrain_duration_minutes
    /\ Len(sim_history) >= 2

\* ---------------------------------------------------------------- C6
\* C6: every aggregate of get_statistics, the mode histogram included, is
\* computed over the retained window: the histogram counts the modes of the
\* retained snapshots and its counts sum to total_snapshots.
C6_StatisticsOverWindow ==
    snapshots # <<>> =>
        /\ get_statistics(snapshots, decision_history)[1].total_snapshots = Len(snapshots)
        /\ \A m \in 1..9 :
              get_statistics(snapshots, decision_history)[1].mode_distribution[m]
                 = Cardinality({i \in 1..Len(snapshots) : snapshots[i].decision.mode = m})
        /\ SumSeq(get_statistics(snapshots, decision_history)[1].mode_distribution)
              = get_statistics(snapshots, decision_history)[1].total_snapshots

\* ---------------------------------------------------------------- C7
\* C7: reset() returns every history and derived state to its initial value:
\* snapshots, vector history, estimator estimate, covariance and history,
\* similarity history, retrain timer and decision log; get_current_status
\* then reports no data and get_statistics is empty.
C7_ResetRestoresInitialState ==
    result.op = "reset" =>
        /\ snapshots = <<>>
        /\ vrps_history = <<>>
        /\ x_est = Vec(initial_estimate)
        /\ P = Vec(initial_covariance)
        /\ kalman_history = <<>>
        /\ sim_history = <<>>
        /\ low_sim_start = None
        /\ decision_history = <<>>
        /\ get_current_status(snapshots).status = "no_data"
        /\ get_statistics(snapshots, decision_history) = None

\* ---------------------------------------------------------------- C8
\* C8: process_metrics and the read accessors exclude each other, so a reader
\* never sees more than history_size snapshots.
C8_ReaderSeesAtMostHistorySize == observed <= history_size

\* ---------------------------------------------------------------- C9
\* C9: a failure of the forecaster's predict is never propagated out of
\* process_metrics, in the hybrid path and in the forecaster-only path; with
\* the linear estimator enabled the forecast is then the estimator's estimate.
C9_PredictFailureContained ==
    (result.op = "process_metrics" /\ result.predict_failed)
        => /\ result.raised = "none"
           /\ enable_kalman => result.snapshot[1].prediction = x_est

\* ---------------------------------------------------------------- C10
\* the forecaster is absent or unavailable: no object, untrained, or no
\* machine-learning backend
ForecasterUnavailable ==
    lstm = None \/ ~lstm[1].is_trained \/ ~TF_AVAILABLE

\* what the call gives on a monitor that has only the linear estimator
LinearOnlyOutcome(s) ==
    process_outcome_with(None, s, CHOOSE x \in NNOutcomes : x.raised)

\* C10: with the forecaster absent or unavailable and the linear estimator
\* enabled, every process_metrics call gives the forecast, the similarity and
\* the decision mode that a monitor with only the linear estimator gives for
\* the same sample in the same state.
C10_SameAsLinearOnly ==
    [][ (calls' # calls /\ result'.op = "process_metrics"
            /\ enable_kalman /\ ForecasterUnavailable) =>
          \E s \in Samples :
             /\ calculate_vector(s) = vrps_history'[Len(vrps_history')]
             /\ result'.raised = LinearOnlyOutcome(s).raised
             /\ result'.snapshot # None
             /\ result'.snapshot[1].prediction = LinearOnlyOutcome(s).snapshot.prediction
             /\ result'.snapshot[1].similarity = LinearOnlyOutcome(s).snapshot.similarity
             /\ result'.snapshot[1].decision.mode = LinearOnlyOutcome(s).snapshot.decision.mode
      ]_vars

\* ---------------------------------------------------------------- C11
\* the static table of the nine modes, by the ranks of the two levels
LevelRank(level) == IF level = "high" THEN 0 ELSE IF level = "medium" THEN 1 ELSE 2

ModeOfLevels(sust_level, sim_level) == 3 * LevelRank(sust_level) + LevelRank(sim_level) + 1

\* C11: every decision decide returned carries one of the nine modes, the
\* mode is the entry of the static 3x3 table for (sustainability level,
\* similarity level), whatever the decision log, the similarity history and
\* the earlier calls were, and the action is the fixed label of the mode.
C11_ModeIsTableLookup ==
    \A i \in 1..Len(decision_history) :
        /\ decision_history[i].mode \in 1..9
        /\ decision_history[i].mode
              = ModeOfLevels(decision_history[i].sust_level, decision_history[i].sim_level)
        /\ decision_history[i].action = RESPONSE_ACTIONS[decision_history[i].mode]
        /\ \A j \in 1..Len(decision_history) :
              (/\ decision_history[j].sust_level = decision_history[i].sust_level
               /\ decision_history[j].sim_level = decision_history[i].sim_level)
                 => /\ decision_history[j].mode = decision_history[i].mode
                    /\ decision_history[j].action = decision_history[i].action

\* the same pair of levels decided twice, in different detector states, and
\* an off-diagonal pair decided in between
C11_SameLevelsTwice ==
    /\ Len(decision_history) = 3
    /\ decision_history[1].sust_level = "high" /\ decision_history[1].sim_level = "medium"
    /\ decision_history[2].sust_level = "medium" /\ decision_history[2].sim_level = "high"
    /\ decision_history[3].mode = 2
    /\ decision_history[3].timestamp > decision_history[1].timestamp

\* ---------------------------------------------------------------- C12
\* the forecasts and the observed vectors decide is called with
DecideForecasts == {pair[1] : pair \in DecidePairs}
DecideObserved == {pair[2] : pair \in DecidePairs}

\* the DecisionResult decide(s_pred, s_norm) returns in the current state
DecideOn(s_pred, s_norm) ==
    decide_result(evaluate(sim_history, low_sim_start, s_pred, s_norm, now).res,
                  s_pred, s_norm, osr_thresholds, now)

\* C12: in whatever state decide is called, the sustainability level and
\* value depend only on the forecast (same forecast, different observed
\* vectors: same level and value), and the violated components depend only on
\* the observed vector (same observed vector, different forecasts: same list).
C12_ForecastAndObservedRoles ==
    LET returned == { <<u, v, DecideOn(u, v)>> : u \in DecideForecasts, v \in DecideObserved }
    IN  \A a \in returned : \A b \in returned :
            /\ a[1] = b[1] => /\ a[3].sust_level = b[3].sust_level
                              /\ a[3].sust_value = b[3].sust_value
            /\ a[2] = b[2] => a[3].violated_components = b[3].violated_components

\* decide has run, and in this state one forecast with two observed vectors
\* gives two modes while one observed vector with two forecasts gives two
\* sustainability levels
C12_RolesDistinguished ==
    /\ result.op = "decide"
    /\ Len(decision_history) >= 2
    /\ DecideOn(Vec(10), Vec(10)).mode # DecideOn(Vec(10), Vec(0)).mode
    /\ DecideOn(Vec(10), Vec(10)).sust_level # DecideOn(Vec(6), Vec(10)).sust_level
    /\ DecideOn(Vec(10), Vec(0)).violated_components
          # DecideOn(Vec(10), Vec(10)).violated_components

\* ---------------------------------------------------------------- C13
\* C13: for every sample, negative or inconsistent counts included, each of
\* the five normalized components calculate_vector produced and the
\* sustainability index calculate_sustainability gives for it lie in [0, 1].
C13_ComponentsInUnitInterval ==
    \A k \in 1..Len(vrps_history) :
        /\ \A i \in Idx : vrps_history[k][i] >= 0 /\ vrps_history[k][i] <= Scale
        /\ calculate_sustainability(vrps_history[k]).sust_index >= 0
        /\ calculate_sustainability(vrps_history[k]).sust_index <= 1000

\* ---------------------------------------------------------------- C14
\* the mean of the newest k recorded similarities of history h
MeanOfNewest(h, k) ==
    Round(SumSeq([i \in 1..k |-> h[Len(h) - k + i][2]]), k)

\* C14: the similarity history never holds more than its capacity and evicts
\* the oldest first: after any step it is the newest part of the old history
\* followed by the entries the step recorded (process_metrics records two);
\* and the moving average evaluate returned is the mean of the newest
\* min(window_size, number recorded) similarities, the new one included.
C14_BoundedHistoryAndMovingAverage ==
    [][ /\ Len(sim_history') <= sim_history_maxlen
        /\ IF calls' # calls /\ result'.op = "process_metrics" /\ result'.raised = "none"
           THEN /\ Len(sim_history') = Min(sim_history_maxlen, Len(sim_history) + 2)
                /\ SubSeq(sim_history', 1, Len(sim_history') - 2)
                      = LastN(sim_history, Len(sim_history') - 2)
                /\ sim_history'[Len(sim_history') - 1] = sim_history'[Len(sim_history')]
           ELSE sim_history' = sim_history
        /\ sim_result' # None =>
              /\ sim_history'[Len(sim_history')]
                    = <<sim_result'[1].timestamp, sim_result'[1].similarity>>
              /\ sim_result'[1].moving_average
                    = MeanOfNewest(sim_history', Min(ma_window_size, Len(sim_history')))
      ]_vars

\* the buffer is full and has dropped its oldest entries
C14_HistoryEvicted ==
    /\ Len(sim_history) = sim_history_maxlen
    /\ Len(decision_history) * 2 > sim_history_maxlen
    /\ result.op = "process_metrics" /\ result.raised = "none"

\* ---------------------------------------------------------------- C15
\* C15: the decision log is append-only: a process_metrics call that reaches
\* decide appends exactly the DecisionResult it returns, every other step
\* (reset included) leaves the log as it is, and get_mode_statistics has one
\* counter for each of the nine modes, the counters summing to the log length.
C15_DecisionLogAppendOnly ==
    [][ /\ IF calls' # calls /\ result'.op = "process_metrics" /\ result'.raised = "none"
           THEN decision_history' = Append(decision_history, result'.snapshot[1].decision)
           ELSE decision_history' = decision_history
        /\ DOMAIN get_mode_statistics(decision_history') = 1..9
        /\ SumSeq(get_mode_statistics(decision_history')) = Len(decision_history')
      ]_vars

\* decisions were appended before and after a reset, and all are in the log
C15_LogOutlivesReset ==
    /\ Len(decision_history) >= 2
    /\ Len(decision_history) > Len(arrived)
    /\ result.op = "process_metrics" /\ result.raised = "none"

\* ---------------------------------------------------------------- C16
\* the names of the components of v strictly below their threshold
StrictlyBelow(v) == {components[i] : i \in {j \in Idx : v[j] < osr_thresholds[j]}}

\* C16: for every snapshot, the vector is in the OSR iff each of its five
\* components is at least its threshold, iff no violation is listed, and the
\* violations listed are exactly the components strictly below their
\* threshold: a component equal to its threshold is not violated.
C16_OsrIffNoViolation ==
    \A k \in 1..Len(arrived) :
        /\ arrived[k].in_osr
              = (\A i \in Idx : arrived[k].vrps_vector[i] >= osr_thresholds[i])
        /\ arrived[k].in_osr = (arrived[k].osr_violations = <<>>)
        /\ {arrived[k].osr_violations[n] : n \in 1..Len(arrived[k].osr_violations)}
              = StrictlyBelow(arrived[k].vrps_vector)
        /\ Len(arrived[k].osr_violations) = Cardinality(StrictlyBelow(arrived[k].vrps_vector))
        /\ is_in_osr(arrived[k].vrps_vector) = (get_violations(arrived[k].vrps_vector) = <<>>)

\* a snapshot outside the OSR whose R component equals its threshold, next
\* to a snapshot inside the OSR
C16_ComponentAtThreshold ==
    /\ Len(arrived) = 2
    /\ arrived[1].in_osr
    /\ ~arrived[2].in_osr
    /\ arrived[2].vrps_vector[4] = osr_thresholds[4]
    /\ arrived[2].osr_violations # <<>>

\* ---------------------------------------------------------------- C17
\* C17: the reason of a decision is the nominal message iff the
\* sustainability level is high, the similarity level is high and no OSR
\* component of the observed vector is violated; a mode-1 decision with a
\* violated component does not report nominal.
C17_NominalIffNoClause ==
    \A i \in 1..Len(decision_history) :
        /\ (decision_history[i].reason = <<"nominal">>)
              = (/\ decision_history[i].sust_level = "high"
                 /\ decision_history[i].sim_level = "high"
                 /\ decision_history[i].violated_components = <<>>)
        /\ (decision_history[i].mode = 1 /\ decision_history[i].violated_components # <<>>)
              => decision_history[i].reason # <<"nominal">>

\* a mode-1 decision with a violated component, after a nominal one
C17_ModeOneWithViolation ==
    /\ Len(decision_history) = 2
    /\ decision_history[1].reason = <<"nominal">>
    /\ decision_history[2].mode = 1
    /\ decision_history[2].violated_components = <<"A">>
    /\ result.op = "decide"

\* ---------------------------------------------------------------- C18
\* the saturation sample of scenario B
SaturationSample ==
    [T |-> 1000, rho |-> 2000, P_block |-> 1000, U_cpu |-> 100, U_ram |-> 100,
     N_anom |-> 100, N_bg |-> 0]

\* what the saturation sample gives whatever the forecast is: the zero
\* vector, sustainability 0, status critical, all five components violated,
\* similarity 0 by the zero-norm guard
SaturationObserved(snapshot) ==
    /\ calculate_vector(SaturationSample) = Vec(0)
    /\ snapshot.sustainability.sust_index = 0
    /\ snapshot.sustainability.status = "critical"
    /\ snapshot.sustainability.violated_components = components
    /\ snapshot.osr_violations = components
    /\ snapshot.decision.violated_components = components
    /\ snapshot.similarity = 0
    /\ snapshot.decision.sim_level = "low"

\* C18 as stated: the saturation sample gives sustainability 0, status
\* critical, all five OSR components violated and decision mode 9, in
\* whatever state the monitor is.
C18_SaturationAlwaysModeNine ==
    \A k \in 1..Len(arrived) :
        arrived[k].vrps_vector = Vec(0)
            => /\ SaturationObserved(arrived[k])
               /\ arrived[k].decision.mode = 9

\* C18: the saturation sample gives sustainability 0, status critical, all
\* five OSR components violated and similarity level low in whatever state
\* the monitor is; the decision mode is 9 whenever the forecast is the
\* current vector (warm-up, the cold first sample included), and otherwise
\* the mode of the low-similarity column for the forecast's sustainability
\* level: 3, 6 or 9.
C18_SaturationLowSimilarityColumn ==
    \A k \in 1..Len(arrived) :
        arrived[k].vrps_vector = Vec(0)
            => /\ SaturationObserved(arrived[k])
               /\ arrived[k].decision.mode \in {3, 6, 9}
               /\ arrived[k].decision.mode
                     = DECISION_MATRIX[get_level(sustainability_calculate(arrived[k].prediction))]["low"]
               /\ arrived[k].prediction = arrived[k].vrps_vector
                     => arrived[k].decision.mode = 9

\* a saturation sample decided in the steady state with a mode other than 9,
\* after a saturation sample decided cold with mode 9
C18_SaturationInSteadyState ==
    /\ Len(arrived) = 2
    /\ arrived[1].vrps_vector = Vec(0) /\ arrived[1].decision.mode = 9
    /\ arrived[2].vrps_vector = Vec(0) /\ arrived[2].decision.mode = 3
    /\ arrived[2].prediction # arrived[2].vrps_vector

\* ---------------------------------------------------------------- C19
\* nominal samples: T <= T_base, no load, no blocking, no anomalies, N_bg > 0
NominalSamples ==
    { [T |-> t, rho |-> 0, P_block |-> 0, U_cpu |-> 0, U_ram |-> 0, N_anom |-> 0, N_bg |-> n] :
        t \in {0, 5, T_base}, n \in {1, 100} }

\* C19: a nominal sample gives C = L = Q = R = A = 1, sustainability 1,
\* status healthy and no OSR violation, and the snapshot of a nominal sample
\* that is the first one of a cold monitor has decision mode 1.
C19_NominalScenario ==
    /\ \A s \in NominalSamples :
          /\ calculate_vector(s) = Vec(Scale)
          /\ calculate_sustainability(calculate_vector(s))
                = [sust_index |-> 1000, status |-> "healthy", in_osr |-> TRUE,
                   violated_components |-> <<>>]
    /\ \A k \in 1..Len(arrived) :
          arrived[k].vrps_vector = Vec(Scale)
             => /\ arrived[k].sustainability.sust_index = 1000
                /\ arrived[k].sustainability.status = "healthy"
                /\ arrived[k].in_osr /\ arrived[k].osr_violations = <<>>
                /\ arrived[k].seq = 1 => arrived[k].decision.mode = 1

\* the nominal sample was the first one of a cold monitor
C19_NominalOnColdMonitor ==
    /\ result.op = "process_metrics"
    /\ Len(arrived) = 1
    /\ arrived[1].seq = 1
    /\ arrived[1].vrps_vector = Vec(Scale)
    /\ arrived[1].decision.mode = 1

\* ---------------------------------------------------------------- C20
\* every row of the dataset is the same vector
ConstantData(data) == \A t \in 1..Len(data) : data[t] = data[1]

\* C20: learn_transition_matrix never raises, and it leaves F unchanged when
\* given fewer than ten historical vectors and when given a constant
\* (rank-deficient) dataset.
C20_FitFallbackKeepsF ==
    [][ (calls' # calls /\ result'.op = "train_models")
            => /\ result'.raised = "none"
               /\ (Len(result'.data) < min_training_rows \/ ConstantData(result'.data))
                     => F' = F
      ]_vars

\* ---------------------------------------------------------------- C21
\* C21: status and levels use the same three tiers.  Sustainability above
\* 0.8 is healthy / high, from 0.5 to 0.8 (both ends included) degraded /
\* medium, below 0.5 critical / low; similarity above the high threshold is
\* high, from the medium threshold to the high threshold (both included)
\* medium, below the medium threshold low.
C21_ThreeTierThresholds ==
    /\ result.op = "calculate_sustainability" =>
          /\ (result.sustainability.status = "healthy") = (result.sustainability.sust_index > 800)
          /\ (result.sustainability.status = "degraded")
                = (result.sustainability.sust_index >= 500 /\ result.sustainability.sust_index <= 800)
          /\ (result.sustainability.status = "critical") = (result.sustainability.sust_index < 500)
          /\ LevelRank(get_level(result.sustainability.sust_index))
                = (CASE result.sustainability.status = "healthy" -> 0
                     [] result.sustainability.status = "degraded" -> 1
                     [] OTHER -> 2)
    /\ \A i \in 1..Len(decision_history) :
          /\ (decision_history[i].sust_level = "high") = (decision_history[i].sust_value > 800)
          /\ (decision_history[i].sust_level = "medium")
                = (decision_history[i].sust_value >= 500 /\ decision_history[i].sust_value <= 800)
          /\ (decision_history[i].sust_level = "low") = (decision_history[i].sust_value < 500)
          /\ (decision_history[i].sim_level = "high")
                = (decision_history[i].sim_value > sim_high_threshold)
          /\ (decision_history[i].sim_level = "medium")
                = (/\ decision_history[i].sim_value >= sim_medium_threshold
                   /\ decision_history[i].sim_value <= sim_high_threshold)
          /\ (decision_history[i].sim_level = "low")
                = (decision_history[i].sim_value < sim_medium_threshold)

\* a decision at sustainability exactly 0.8, a decision at similarity exactly
\* the high threshold, then a status at sustainability exactly 0.5
C21_AtTheBoundaries ==
    /\ Len(decision_history) = 2
    /\ decision_history[1].sust_value = 800 /\ decision_history[1].sust_level = "medium"
    /\ decision_history[2].sim_value = sim_high_threshold
    /\ decision_history[2].sim_level = "medium"
    /\ result.op = "calculate_sustainability"
    /\ result.sustainability.sust_index = 500
    /\ result.sustainability.status = "degraded"

\* ---------------------------------------------------------------- C22
\* C22: for every n >= 0, get_history(n) returns at most n entries: the
\* min(n, retained) most recent snapshots in chronological order, so n = 0
\* returns no entries.  (It is a read: the retained history is its argument
\* and is not written.)
C22_HistoryCappedAtN ==
    \A n \in 0..(history_size + 1) :
        /\ Len(get_history(snapshots, n)) <= n
        /\ get_history(snapshots, n)
              = SubSeq(snapshots, Len(snapshots) - Min(n, Len(snapshots)) + 1, Len(snapshots))

\* ---------------------------------------------------------------- C23
\* every process_metrics call makes the sequence of vectors one longer
VectorHistoryGrows ==
    [][ (calls' # calls /\ result'.op = "process_metrics")
            => Len(vrps_history') = Len(vrps_history) + 1 ]_vars

\* C23: the sequence of vectors process_metrics appends to is bounded: its
\* length never exceeds a fixed capacity, however many samples are processed.
\* The capacities the monitor is configured with are history_size and
\* sequence_length (the number of vectors taken from the sequence).
C23_VectorHistoryBounded ==
    Len(vrps_history) <= Max(history_size, sequence_length)

\* ---------------------------------------------------------------- C24
\* C24: predict_multi_step(k) returns exactly k forecast vectors, each with
\* its components in [0, 1], the first one the clamped F times the current
\* estimate; it leaves the estimate, the covariance, F and the estimator
\* history as they were, and a second call in a row with the same k returns
\* the same sequence.
C24_MultiStepIsARead ==
    [][ (calls' # calls /\ result'.op = "predict_multi_step") =>
          /\ Len(result'.predictions) = result'.steps
          /\ \A n \in 1..Len(result'.predictions) : \A i \in Idx :
                result'.predictions[n][i] >= 0 /\ result'.predictions[n][i] <= Scale
          /\ result'.steps >= 1 =>
                result'.predictions[1] = clip_unit(kalman_predict(F, x_est, P).x_pred)
          /\ x_est' = x_est /\ P' = P /\ F' = F /\ kalman_history' = kalman_history
          /\ (result.op = "predict_multi_step" /\ result.steps = result'.steps)
                => result'.predictions = result.predictions
      ]_vars

\* two steps forecast with a learned F above 1: the second forecast is held
\* at 1 by the clamp
C24_ClampedForecast ==
    /\ result.op = "predict_multi_step"
    /\ result.steps = 2
    /\ F[1] > Scale
    /\ result.predictions[2][1] = Scale
    /\ Round(F[1] * F[1], Scale) * x_est[1] > Scale * Scale

\* ---------------------------------------------------------------- C25
\* the lifecycle state for h, the vectors accumulated since construction or
\* the last reset: 0 empty-history, 1 warming-up, 2 steady
Lifecycle(h) ==
    IF Len(h) = 0 THEN 0 ELSE IF Len(h) < sequence_length THEN 1 ELSE 2

\* C25: between resets the lifecycle state only moves forward: empty-history
\* before the first sample, warming-up while 1 <= accumulated vectors <
\* sequence_length, steady from the sample that makes the count reach
\* sequence_length.  A call handled in warm-up leaves the estimator alone and
\* forecasts the current vector; a call made once the count has reached
\* sequence_length is handled in the steady state (the estimator is updated
\* when enabled, a trained forecaster is asked when there is no estimator),
\* and so is every later call until reset() returns to empty-history.
C25_LifecycleMovesForward ==
    [][ /\ (calls' # calls /\ result'.op = "reset") => Lifecycle(vrps_history') = 0
        /\ ~(calls' # calls /\ result'.op = "reset")
              => Lifecycle(vrps_history') >= Lifecycle(vrps_history)
        /\ (calls' # calls /\ result'.op = "process_metrics") =>
              /\ Len(vrps_history') = Len(vrps_history) + 1
              /\ Lifecycle(vrps_history') = 1 =>
                    /\ kalman_history' = kalman_history /\ x_est' = x_est
                    /\ result'.snapshot # None
                    /\ result'.snapshot[1].prediction = result'.snapshot[1].vrps_vector
              /\ (Lifecycle(vrps_history') = 2 /\ enable_kalman) =>
                    Len(kalman_history') = Len(kalman_history) + 1
              /\ (Lifecycle(vrps_history') = 2 /\ ~enable_kalman /\ lstm # None
                      /\ lstm[1].is_trained /\ TF_AVAILABLE) =>
                    \/ result'.predict_failed
                    \/ \E o \in NNOutcomes : result'.snapshot[1].prediction = o.v
      ]_vars

\* a call handled in the steady state after the call that reached it
C25_SteadyStays ==
    /\ result.op = "process_metrics"
    /\ Len(vrps_history) > sequence_length
    /\ enable_kalman
    /\ Len(kalman_history) = Len(vrps_history) - sequence_length + 1

\* ---------------------------------------------------------------- C26
\* the similarities of the samples processed so far, one per sample (the
\* decision log holds one decision per sample and is never cleared), and the
\* mean of the newest k of them
SampleSimilarity(k) == decision_history[k].sim_value

MeanOfNewestSamples(k) ==
    Round(SumSeq([i \in 1..k |-> SampleSimilarity(Len(decision_history) - k + i)]), k)

\* C26: each process_metrics call records exactly one similarity observation
\* in the detector's history, so that the history holds one entry per sample
\* (up to its capacity) and the snapshot's similarity_ma is the mean of the
\* similarities of the last window_size samples.
C26_OneObservationPerSample ==
    (result.op = "process_metrics" /\ result.raised = "none") =>
        /\ Len(sim_history) = Min(sim_history_maxlen, Len(decision_history))
        /\ result.snapshot[1].similarity_ma
              = MeanOfNewestSamples(Min(ma_window_size, Len(decision_history)))

\* ---------------------------------------------------------------- C27
\* C27: with two threads calling process_metrics on the same monitor, no
\* update is lost: once every call has returned, the vector history holds
\* the vector of each call, the snapshot history holds the snapshot of each
\* call except the oldest ones evicted, and it holds at most history_size.
C27_NoLostUpdate ==
    (\A t \in Threads : pc[t].at = "idle") =>
        /\ Len(vrps_history) = calls
        /\ \A k \in 1..Len(arrived) : vrps_history[k] = arrived[k].vrps_vector
        /\ snapshots = LastN(arrived, history_size)
        /\ Len(snapshots) <= history_size

\* ---------------------------------------------------------------- C28
\* C28: in every snapshot the three OSR views agree: in_osr equals
\* sustainability.in_osr, and osr_violations, decision.violated_components
\* and sustainability.violated_components are the same list, for every sample
\* and every VRPSConfig, one with customised osr_thresholds included.
C28_OsrViewsAgree ==
    \A k \in 1..Len(arrived) :
        /\ arrived[k].in_osr = arrived[k].sustainability.in_osr
        /\ arrived[k].osr_violations = arrived[k].decision.violated_components
        /\ arrived[k].osr_violations = arrived[k].sustainability.violated_components

\* ---------------------------------------------------------------- C29
\* C29: process_metrics never changes the transition matrix F, whatever the
\* detector reports (needs_retraining true included); reset() leaves a
\* learned F in place; F changes only in a train_models call.
C29_OnlyTrainingChangesF ==
    [][ /\ (calls' # calls /\ result'.op = "process_metrics") => F' = F
        /\ (calls' # calls /\ result'.op = "reset") => F' = F
        /\ F' # F => (calls' # calls /\ result'.op = "train_models")
      ]_vars

\* a process_metrics call on a monitor with a learned F whose detector
\* reported needs_retraining
C29_RetrainingReported ==
    /\ result.op = "process_metrics" /\ result.raised = "none"
    /\ sim_result # None /\ sim_result[1].needs_retraining
    /\ F # Vec(Scale)

\* ---------------------------------------------------------------- C30
\* C30: with the linear estimator enabled, the estimator is updated once per
\* process_metrics call made in the steady state and not at all in warm-up:
\* after n samples since construction or reset its history holds
\* max(0, n - sequence_length + 1) states, a steady call appends exactly the
\* state of one update with the current vector, and while n is below
\* sequence_length the estimate and the covariance have their initial values.
C30_OneUpdatePerSteadyCall ==
    [][ enable_kalman =>
          /\ Len(kalman_history') = Max(0, Len(vrps_history') - sequence_length + 1)
          /\ Len(vrps_history') < sequence_length =>
                /\ x_est' = Vec(initial_estimate)
                /\ P' = Vec(initial_covariance)
          /\ (calls' # calls /\ result'.op = "process_metrics"
                  /\ Len(vrps_history') >= sequence_length) =>
                /\ kalman_history'
                      = Append(kalman_history,
                               kalman_update(F, x_est, P, vrps_history'[Len(vrps_history')], now).state)
                /\ x_est' = kalman_history'[Len(kalman_history')].x_est
      ]_vars

\* the first steady call: one update, the estimate has left its initial value
C30_FirstUpdate ==
    /\ result.op = "process_metrics"
    /\ enable_kalman
    /\ Len(vrps_history) = sequence_length
    /\ Len(kalman_history) = 1
    /\ x_est # Vec(initial_estimate)

====
